---------------------------- MODULE Spec2Model ----------------------------
(***************************************************************************)
(* Pancake sorting by best-first search: the A* solver (src/pancake.py)    *)
(* and the uniform-cost solver (src/pancake_ucs.py).                       *)
(*                                                                         *)
(* One behaviour runs the A* command line on an input stack and then the   *)
(* uniform-cost command line on the same stack, keeping the outcome of the *)
(* first process in astar_outcome so that the two can be compared.         *)
(*                                                                         *)
(* A node is a record [state, parent, backward_cost, order_added,          *)
(* flip_depth].  Optional values (parent, curr_node, solution,             *)
(* exit_status) are sequences of length 0 (None / False / not set) or 1.   *)
(* The root has no flip_depth attribute; the record holds 0 there.         *)
(* pancake_ucs.Node has no order_added attribute (the order lives in the   *)
(* heap tuple); the record holds 0 there.                                  *)
(*                                                                         *)
(* A heap entry is a record [cost, order, node]: in pancake_ucs.py it is   *)
(* the tuple (total_cost, order_added, node) pushed on the heap; in        *)
(* pancake.py it is the node itself, compared by Node.__lt__ on            *)
(* (total_cost(), order_added), both fixed once the node is on the heap.   *)
(***************************************************************************)
EXTENDS Integers, Sequences, FiniteSets, TLC

VARIABLES input, variant, pc, heap, visited, order_added, curr_node,
          flip_depth, solution, output, steps, exit_status, astar_outcome,
          last_op

vars == <<input, variant, pc, heap, visited, order_added, curr_node,
          flip_depth, solution, output, steps, exit_status, astar_outcome,
          last_op>>

(* Bounds of the model *)
MaxLen == 6
MaxAnyLen == 3

MaxVal == MaxAnyLen + 1

(***************************************************************************)
(* Input stacks: every valid stack 1..n with the plate n last, for n up to *)
(* MaxLen, every sequence of length 1..MaxAnyLen over 1..MaxVal (valid or  *)
(* not), and one stack of 7 elements on which the A-star process pops a    *)
(* node that was reached by a dearer path than the cheapest one.           *)
(***************************************************************************)
PlateLast(n) == {Append(p, n) : p \in Permutations(1..(n - 1))}

AnyStacks == UNION {[1..n -> 1..MaxVal] : n \in 1..MaxAnyLen}

LongStacks == {<<1, 2, 4, 6, 3, 5, 7>>}

Inputs == (UNION {PlateLast(n) : n \in 1..MaxLen}) \cup AnyStacks
              \cup LongStacks

(***************************************************************************)
(* Node                                                                    *)
(***************************************************************************)
(* mutant: the difference is taken with its sign *)
AbsSigned(x) == x

Abs(x) == IF x < 0 THEN -x ELSE x

RECURSIVE GapLoop(_, _, _)
GapLoop(state, i, h_gap) ==
    IF i > Len(state) THEN h_gap
    ELSE GapLoop(state, i + 1,
                 IF Abs(state[i] - state[i - 1]) # 1 THEN h_gap + 1 ELSE h_gap)

(* mutant: the test of the loop inverted, adjacent sizes are counted *)
RECURSIVE GapLoopInverted(_, _, _)
GapLoopInverted(state, i, h_gap) ==
    IF i > Len(state) THEN h_gap
    ELSE GapLoopInverted(state, i + 1,
             IF Abs(state[i] - state[i - 1]) = 1 THEN h_gap + 1 ELSE h_gap)

heuristicInverted(state) == GapLoopInverted(state, 2, 0)

(* mutant: the pair at the plate is left out *)
heuristicNoPlate(state) == GapLoop(SubSeq(state, 1, Len(state) - 1), 2, 0)

heuristic(state) == GapLoop(state, 2, 0)

(* mutant: the A-star key without the backward cost *)
total_costGreedy(v, node) ==
    IF v = "astar" THEN heuristic(node.state) ELSE node.backward_cost

(* mutant: the keys of the two variants exchanged *)
total_costSwapped(v, node) ==
    IF v = "ucs" THEN heuristic(node.state) + node.backward_cost
    ELSE node.backward_cost

total_cost(v, node) ==
    IF v = "astar" THEN heuristic(node.state) + node.backward_cost
    ELSE node.backward_cost

RECURSIVE FlipLoop(_, _, _)
FlipLoop(state, d, x) ==
    IF x >= d \div 2 THEN state
    ELSE FlipLoop([state EXCEPT ![x + 1] = state[d - x],
                                ![d - x] = state[x + 1]], d, x + 1)

(* mutant: the swap loop overwrites the front without keeping it in temp *)
RECURSIVE FlipLoopNoTemp(_, _, _)
FlipLoopNoTemp(state, d, x) ==
    IF x >= d \div 2 THEN state
    ELSE FlipLoopNoTemp([state EXCEPT ![x + 1] = state[d - x]], d, x + 1)

FlipStateNoTemp(state, d) == FlipLoopNoTemp(state, d, 0)

(* mutant: the swap loop stops one element short *)
FlipStateShort(state, d) == FlipLoop(state, d - 1, 0)

FlipState(state, d) == FlipLoop(state, d, 0)

(* mutant: a flip costs 1 whatever its depth *)
flipUnitCost(node, d) ==
    [node EXCEPT !.flip_depth = d,
                 !.state = FlipState(node.state, d),
                 !.backward_cost = node.backward_cost + 1]

flip(node, d) ==
    [node EXCEPT !.flip_depth = d,
                 !.state = FlipState(node.state, d),
                 !.backward_cost = node.backward_cost + d]

NewNode(state, order) ==
    [state |-> state, parent |-> <<>>, backward_cost |-> 0,
     order_added |-> order, flip_depth |-> 0]

Entry(v, node, order) ==
    [cost |-> total_cost(v, node), order |-> order, node |-> node]

Less(a, b) ==
    IF a.cost # b.cost THEN a.cost < b.cost ELSE a.order < b.order

(***************************************************************************)
(* PriorityQueue: heapq on a list; positions are 0-based as in heapq.      *)
(***************************************************************************)
RECURSIVE SiftdownLoop(_, _, _, _)
SiftdownLoop(h, startpos, pos, newitem) ==
    IF pos > startpos
    THEN LET parentpos == (pos - 1) \div 2
             parent == h[parentpos + 1]
         IN  IF Less(newitem, parent)
             THEN SiftdownLoop([h EXCEPT ![pos + 1] = parent],
                               startpos, parentpos, newitem)
             ELSE [h EXCEPT ![pos + 1] = newitem]
    ELSE [h EXCEPT ![pos + 1] = newitem]

siftdown(h, startpos, pos) == SiftdownLoop(h, startpos, pos, h[pos + 1])

RECURSIVE SiftupLoop(_, _, _, _, _)
SiftupLoop(h, startpos, pos, childpos, newitem) ==
    IF childpos < Len(h)
    THEN LET rightpos == childpos + 1
             cp == IF rightpos < Len(h)
                      /\ ~Less(h[childpos + 1], h[rightpos + 1])
                   THEN rightpos ELSE childpos
         IN  SiftupLoop([h EXCEPT ![pos + 1] = h[cp + 1]],
                        startpos, cp, 2 * cp + 1, newitem)
    ELSE siftdown([h EXCEPT ![pos + 1] = newitem], startpos, pos)

siftup(h, pos) == SiftupLoop(h, pos, pos, 2 * pos + 1, h[pos + 1])

put(h, entry) == siftdown(Append(h, entry), 0, Len(h))

(* get: the pair <<returned entry, heap left>> *)
get(h) ==
    LET lastelt == h[Len(h)]
        rest == SubSeq(h, 1, Len(h) - 1)
    IN  IF rest # <<>>
        THEN <<rest[1], siftup([rest EXCEPT ![1] = lastelt], 0)>>
        ELSE <<lastelt, rest>>

(* mutant: the frontier is never found to hold a state *)
hasNever(h, state) == FALSE

has(h, state) == \E i \in 1..Len(h) : h[i].node.state = state

Index(h, entry) == CHOOSE i \in 1..Len(h) :
    /\ h[i] = entry
    /\ \A j \in 1..(i - 1) : h[j] # entry

RECURSIVE ReplaceLoop(_, _, _)
ReplaceLoop(h, i, new_node) ==
    IF i > Len(h) THEN h
    ELSE LET node == h[i]
         IN  IF node.node.state = new_node.node.state
                /\ new_node.cost < node.cost
             THEN ReplaceLoop([h EXCEPT ![Index(h, node)] = new_node],
                              i + 1, new_node)
             ELSE ReplaceLoop(h, i + 1, new_node)

(* mutant: an entry of equal cost is replaced too *)
RECURSIVE ReplaceOnTieLoop(_, _, _)
ReplaceOnTieLoop(h, i, new_node) ==
    IF i > Len(h) THEN h
    ELSE LET node == h[i]
         IN  IF node.node.state = new_node.node.state
                /\ new_node.cost <= node.cost
             THEN ReplaceOnTieLoop([h EXCEPT ![Index(h, node)] = new_node],
                                   i + 1, new_node)
             ELSE ReplaceOnTieLoop(h, i + 1, new_node)

replaceOnTie(h, new_node) == ReplaceOnTieLoop(h, 1, new_node)

(* mutant: the cheaper node never takes the entry's place *)
replaceNever(h, new_node) == h

replace(h, new_node) == ReplaceLoop(h, 1, new_node)

(***************************************************************************)
(* Input validation                                                        *)
(***************************************************************************)
PlateError(stack) == \E i \in 1..Len(stack) : stack[i] > stack[Len(stack)]

RECURSIVE Insert(_, _)
Insert(sorted, x) ==
    IF sorted = <<>> THEN <<x>>
    ELSE IF x <= Head(sorted) THEN <<x>> \o sorted
    ELSE <<Head(sorted)>> \o Insert(Tail(sorted), x)

RECURSIVE Sorted(_)
Sorted(stack) ==
    IF stack = <<>> THEN <<>>
    ELSE Insert(Sorted(Tail(stack)), Head(stack))

Min(stack) == CHOOSE x \in {stack[i] : i \in 1..Len(stack)} :
    \A i \in 1..Len(stack) : x <= stack[i]

Max(stack) == CHOOSE x \in {stack[i] : i \in 1..Len(stack)} :
    \A i \in 1..Len(stack) : x >= stack[i]

Range(lo, hi) == [i \in 1..(hi - lo + 1) |-> lo + i - 1]

ConsecutiveError(stack) == Sorted(stack) # Range(Min(stack), Max(stack))

(***************************************************************************)
(* Initial state: no process has run yet.                                  *)
(***************************************************************************)
NoOutcome == [done |-> FALSE, solution |-> <<>>, pops |-> 0, output |-> "",
              exit_status |-> <<>>]

Init ==
    /\ input \in Inputs
    /\ variant = "astar"
    /\ pc = "start"
    /\ heap = <<>>
    /\ visited = <<>>
    /\ order_added = 0
    /\ curr_node = <<>>
    /\ flip_depth = 0
    /\ solution = <<>>
    /\ output = ""
    /\ steps = <<>>
    /\ exit_status = <<>>
    /\ astar_outcome = NoOutcome
    /\ last_op = "none"

(***************************************************************************)
(* astar.__init__ (pancake.py) / the head of astar() (pancake_ucs.py):     *)
(* the root goes on the frontier; the counter starts at 0 (A-star) or 1.   *)
(***************************************************************************)
FirstOrder(v) == IF v = "astar" THEN 0 ELSE 1

Construct ==
    /\ \/ variant = "astar" /\ pc = "start"
       \/ variant = "ucs" /\ pc = "construct"
    /\ LET first == FirstOrder(variant)
           root == NewNode(input, IF variant = "astar" THEN first ELSE 0)
       IN  /\ heap' = put(<<>>, Entry(variant, root, first))
           /\ order_added' = first + 1
    /\ visited' = <<>>
    /\ pc' = IF variant = "astar" THEN "verify" ELSE "loop"
    /\ last_op' = "put"
    /\ UNCHANGED <<input, variant, curr_node, flip_depth, solution, output,
                   steps, exit_status, astar_outcome>>

(* astar.verify (pancake.py): exit() without an argument ends with status 0 *)
Verify ==
    /\ variant = "astar" /\ pc = "verify"
    /\ IF PlateError(input)
       THEN /\ output' = "plate error"
            /\ exit_status' = <<0>>
            /\ pc' = "exited"
       ELSE IF ConsecutiveError(input)
       THEN /\ output' = "consecutive error"
            /\ exit_status' = <<0>>
            /\ pc' = "exited"
       ELSE /\ pc' = "loop"
            /\ UNCHANGED <<output, exit_status>>
    /\ UNCHANGED <<input, variant, heap, visited, order_added, curr_node,
                   flip_depth, solution, steps, astar_outcome, last_op>>

(* main (pancake_ucs.py): only the plate is checked before the search *)
PlateCheck ==
    /\ variant = "ucs" /\ pc = "start"
    /\ IF PlateError(input)
       THEN /\ output' = "plate error"
            /\ exit_status' = <<0>>
            /\ pc' = "exited"
       ELSE /\ pc' = "construct"
            /\ UNCHANGED <<output, exit_status>>
    /\ UNCHANGED <<input, variant, heap, visited, order_added, curr_node,
                   flip_depth, solution, steps, astar_outcome, last_op>>

(***************************************************************************)
(* The search loop                                                         *)
(***************************************************************************)
(* mutant: the range of flip depths takes in the plate *)
LengthWithPlate == Len(input) + 1

Length == Len(input)

(* frontier.empty(): no solution *)
RunEmpty ==
    /\ pc = "loop"
    /\ heap = <<>>
    /\ solution' = <<>>
    /\ pc' = "print"
    /\ UNCHANGED <<input, variant, heap, visited, order_added, curr_node,
                   flip_depth, output, steps, exit_status, astar_outcome,
                   last_op>>

(* get, visited.append, goal test; range(2, length) is empty for length <= 2 *)
RunPop ==
    /\ pc = "loop"
    /\ heap # <<>>
    /\ LET popped == get(heap)
           node == popped[1].node
       IN  /\ heap' = popped[2]
           /\ curr_node' = <<node>>
           /\ visited' = Append(visited, node.state)
           /\ IF heuristic(node.state) = 0
              THEN /\ solution' = <<node>>
                   /\ pc' = "print"
                   /\ UNCHANGED flip_depth
              ELSE /\ flip_depth' = 2
                   /\ pc' = IF 2 < Length THEN "expand" ELSE "loop"
                   /\ UNCHANGED solution
    /\ last_op' = "get"
    /\ UNCHANGED <<input, variant, order_added, output, steps, exit_status,
                   astar_outcome>>

(* mutant: every state is found in visited *)
InVisitedAlways(state) == TRUE

(* mutant: no state is found in visited *)
InVisitedNever(state) == FALSE

InVisited(state) == \E i \in 1..Len(visited) : visited[i] = state

(* mutant: no copy is made, the flips of one expansion pile up on one node *)
RECURSIVE FlippedSoFar(_, _)
FlippedSoFar(node, d) ==
    IF d < 2 THEN node ELSE flip(FlippedSoFar(node, d - 1), d)

ChildOfSibling(v, node, d, order) ==
    [FlippedSoFar(node, d) EXCEPT
         !.parent = <<node>>,
         !.order_added = IF v = "astar" THEN order ELSE 0]

(* mutant: the copy keeps the parent of the node it was copied from *)
ChildKeepsParent(v, node, d, order) ==
    [flip(node, d) EXCEPT !.order_added = IF v = "astar" THEN order ELSE 0]

(* child of curr_node: deepcopy, flip, parent, order_added *)
Child(v, node, d, order) ==
    [flip(node, d) EXCEPT !.parent = <<node>>,
                          !.order_added = IF v = "astar" THEN order ELSE 0]

(* one pass of the body of `for flip_depth in range(2, length)` *)
ExpandChild ==
    /\ pc = "expand"
    /\ LET child == Child(variant, curr_node[1], flip_depth, order_added)
           entry == Entry(variant, child, order_added)
       IN  IF ~InVisited(child.state) /\ ~has(heap, child.state)
           THEN /\ heap' = put(heap, entry)
                /\ order_added' = order_added + 1
                /\ last_op' = "put"
           ELSE IF has(heap, child.state)
           THEN /\ heap' = replace(heap, entry)
                /\ order_added' = order_added + 1
                /\ last_op' = "replace"
           ELSE /\ heap' = heap
                /\ last_op' = "discard"
                /\ order_added' =
                       IF variant = "astar" THEN order_added + 1
                       ELSE order_added
    /\ flip_depth' = flip_depth + 1
    /\ pc' = IF flip_depth + 1 < Length THEN "expand" ELSE "loop"
    /\ UNCHANGED <<input, variant, visited, curr_node, solution, output,
                   steps, exit_status, astar_outcome>>

(***************************************************************************)
(* print_solution (pancake.py) / the tail of main (pancake_ucs.py)         *)
(***************************************************************************)
RECURSIVE SolutionSteps(_)
SolutionSteps(opt) ==
    IF opt = <<>> THEN <<>>
    ELSE <<opt[1]>> \o SolutionSteps(opt[1].parent)

Reverse(s) == [i \in 1..Len(s) |-> s[Len(s) + 1 - i]]

PrintSolution ==
    /\ pc = "print"
    /\ IF solution = <<>>
       THEN /\ output' = "No solution found"
            /\ steps' = <<>>
       ELSE LET solution_steps == SolutionSteps(solution)
            IN  IF Len(solution_steps) = 1
                THEN /\ output' = "already sorted"
                     /\ steps' = <<>>
                ELSE /\ output' = "steps"
                     /\ steps' = [i \in 1..(Len(solution_steps) - 1) |->
                            [flip_depth |->
                                 Reverse(solution_steps)[i + 1].flip_depth,
                             state |-> Reverse(solution_steps)[i + 1].state]]
    /\ exit_status' = <<0>>
    /\ pc' = "exited"
    /\ UNCHANGED <<input, variant, heap, visited, order_added, curr_node,
                   flip_depth, solution, astar_outcome, last_op>>

(***************************************************************************)
(* The second process: pancake_ucs.py on the same stack.                   *)
(***************************************************************************)
StartUcs ==
    /\ variant = "astar" /\ pc = "exited"
    /\ astar_outcome' = [done |-> TRUE, solution |-> solution,
                         pops |-> Len(visited), output |-> output,
                         exit_status |-> exit_status]
    /\ variant' = "ucs"
    /\ pc' = "start"
    /\ heap' = <<>>
    /\ visited' = <<>>
    /\ order_added' = 0
    /\ curr_node' = <<>>
    /\ flip_depth' = 0
    /\ solution' = <<>>
    /\ output' = ""
    /\ steps' = <<>>
    /\ exit_status' = <<>>
    /\ last_op' = "none"
    /\ UNCHANGED input

Next ==
    \/ Construct
    \/ Verify
    \/ PlateCheck
    \/ RunEmpty
    \/ RunPop
    \/ ExpandChild
    \/ PrintSolution
    \/ StartUcs

Spec == Init /\ [][Next]_vars

(***************************************************************************)
(* Reference definitions used to state the properties                      *)
(***************************************************************************)
Values(stack) == {stack[i] : i \in 1..Len(stack)}

(* distinct consecutive integers, the maximum last *)
ValidStack(stack) ==
    /\ Len(stack) >= 1
    /\ \A i, j \in 1..Len(stack) : i # j => stack[i] # stack[j]
    /\ \A x \in Values(stack) : \A y \in Values(stack) :
           \A z \in (x + 1)..(y - 1) : z \in Values(stack)
    /\ \A i \in 1..Len(stack) : stack[i] <= stack[Len(stack)]

StrictlyIncreasing(stack) ==
    \A i \in 1..(Len(stack) - 1) : stack[i] < stack[i + 1]

(* the first d elements in reverse order, the rest as they were *)
Reversal(stack, d) ==
    [i \in 1..Len(stack) |-> IF i <= d THEN stack[d + 1 - i] ELSE stack[i]]

Depths(stack) == 2..(Len(stack) - 1)

(* breadth-first distance from stack to a strictly increasing stack *)
RECURSIVE BfsLevel(_, _, _)
BfsLevel(level, seen, k) ==
    IF \E s \in level : StrictlyIncreasing(s) THEN k
    ELSE LET next == UNION {{Reversal(s, d) : d \in Depths(s)} :
                            s \in level} \ seen
         IN  BfsLevel(next, seen \cup next, k + 1)

MinFlips(stack) == BfsLevel({stack}, {stack}, 0)

(* layers[c + 1]: the stacks reached by flip sequences of depth sum c *)
RECURSIVE CostLayers(_, _)
CostLayers(layers, n) ==
    IF \E s \in layers[Len(layers)] : StrictlyIncreasing(s)
    THEN Len(layers) - 1
    ELSE LET c == Len(layers)
             next == UNION {{Reversal(s, d) : s \in layers[c + 1 - d]} :
                            d \in {e \in 2..(n - 1) : e <= c}}
         IN  CostLayers(Append(layers, next), n)

MinDepthSum(stack) == CostLayers(<<{stack}>>, Len(stack))

Chain(opt) == SolutionSteps(opt)

NumFlips(opt) == Len(Chain(opt)) - 1

RECURSIVE SumDepths(_)
SumDepths(chain) ==
    IF chain = <<>> THEN 0 ELSE Head(chain).flip_depth + SumDepths(Tail(chain))

Exited == pc = "exited"

Rejected == output \in {"plate error", "consecutive error"}

Solved == Exited /\ solution # <<>> /\ heuristic(solution[1].state) = 0

UcsFinished == variant = "ucs" /\ Exited /\ astar_outcome.done

(***************************************************************************)
(* C1: for every valid input stack, in both variants, the search loop      *)
(* terminates and its outcome is SOLVED (a node whose gap is 0), never     *)
(* EXHAUSTED.  Termination is stated with a rank: every step of a process  *)
(* raises Rank, Rank never exceeds RankBound (at most one pop for each     *)
(* arrangement of the pancakes above the plate), a process that has not    *)
(* exited is at a position whose step can be taken, and a process that     *)
(* leaves the loop has a solution of gap 0.                                *)
(***************************************************************************)
RECURSIVE Factorial(_)
Factorial(n) == IF n <= 1 THEN 1 ELSE n * Factorial(n - 1)

Rank ==
    CASE pc = "start" -> 0
      [] pc \in {"verify", "construct"} -> 1
      [] pc = "expand" -> 2 + Len(visited) * (Length + 1) + flip_depth - 1
      [] pc = "loop" -> 2 + Len(visited) * (Length + 1) + Length
      [] pc = "print" -> 2 + Len(visited) * (Length + 1) + Length + 1
      [] pc = "exited" -> 2 + Len(visited) * (Length + 1) + Length + 2

RankBound == 2 + Factorial(Length - 1) * (Length + 1) + Length + 2

Runnable ==
    \/ pc = "start"
    \/ pc = "verify" /\ variant = "astar"
    \/ pc = "construct" /\ variant = "ucs"
    \/ pc = "loop"
    \/ pc = "expand" /\ curr_node # <<>> /\ flip_depth \in Depths(input)
    \/ pc = "print"

C1_TerminatesSolved ==
    /\ [][variant' = variant => Rank' > Rank]_vars
    /\ [](ValidStack(input) => Rank <= RankBound)
    /\ [](~Exited => Runnable)
    /\ [](ValidStack(input) /\ pc \in {"print", "exited"} =>
              /\ solution # <<>>
              /\ heuristic(solution[1].state) = 0
              /\ output # "No solution found")

C1_Witness ==
    /\ ValidStack(input) /\ UcsFinished /\ Solved
    /\ Len(visited) > 1
    /\ astar_outcome.solution # <<>> /\ astar_outcome.pops > 1

C3_BackwardCostMinimal ==
    ValidStack(input) /\ Solved =>
        solution[1].backward_cost = MinDepthSum(input)

C3_Witness ==
    /\ ValidStack(input) /\ UcsFinished /\ Solved
    /\ solution[1].backward_cost = MinDepthSum(input)
    /\ astar_outcome.solution # <<>>
    /\ astar_outcome.solution[1].backward_cost = MinDepthSum(input)
    /\ NumFlips(solution) >= 3

(***************************************************************************)
(* C4: when the run ends SOLVED, the parent chain of the result ends in a  *)
(* root without parent whose state is the input, every other node on it    *)
(* has a flip_depth in [2, n-1] and the state of its parent with the first *)
(* flip_depth elements reversed, and the result's state is the input's     *)
(* values in strictly increasing order (for an input that is a valid       *)
(* stack, which is the only kind the A-star process searches).             *)
(***************************************************************************)
ChainLinked(chain) ==
    /\ chain[Len(chain)].parent = <<>>
    /\ chain[Len(chain)].state = input
    /\ \A i \in 1..(Len(chain) - 1) :
           /\ chain[i].parent = <<chain[i + 1]>>
           /\ chain[i].flip_depth \in Depths(input)
           /\ chain[i].state = Reversal(chain[i + 1].state, chain[i].flip_depth)

C4_ParentChain ==
    Solved =>
        /\ ChainLinked(Chain(solution))
        /\ Len(steps) = NumFlips(solution)
        /\ variant = "astar" \/ ValidStack(input) =>
               /\ StrictlyIncreasing(solution[1].state)
               /\ Values(solution[1].state) = Values(input)
               /\ Len(solution[1].state) = Len(input)

C4_Witness ==
    /\ Solved /\ variant = "astar"
    /\ NumFlips(solution) >= 3
    /\ ChainLinked(Chain(solution))
    /\ StrictlyIncreasing(solution[1].state)

(***************************************************************************)
(* C5: for every valid input stack, the A-star process and the             *)
(* uniform-cost process return solution paths with the same number of      *)
(* flips.                                                                  *)
(***************************************************************************)
C5_SameNumberOfFlips ==
    ValidStack(input) /\ UcsFinished =>
        /\ solution # <<>> /\ astar_outcome.solution # <<>>
        /\ NumFlips(solution) = NumFlips(astar_outcome.solution)

C5_Witness ==
    /\ ValidStack(input) /\ UcsFinished
    /\ solution # <<>> /\ astar_outcome.solution # <<>>
    /\ NumFlips(solution) = NumFlips(astar_outcome.solution)
    /\ NumFlips(solution) >= 3
    /\ NumFlips(solution) > MinFlips(input)

(***************************************************************************)
(* C6: for every valid input stack, the number of nodes the A-star process *)
(* pops before it terminates is at most the number the uniform-cost        *)
(* process pops on the same input.                                         *)
(***************************************************************************)
C6_AstarPopsNoMore ==
    ValidStack(input) /\ UcsFinished => astar_outcome.pops <= Len(visited)

C6_Witness ==
    /\ ValidStack(input) /\ UcsFinished
    /\ astar_outcome.pops > 1
    /\ astar_outcome.pops < Len(visited)

(***************************************************************************)
(* C7: for every input stack whose sorted values are not a contiguous      *)
(* integer range (a duplicate or a missing value), each variant prints an  *)
(* error and terminates without entering the search loop: no node is ever  *)
(* popped or expanded.                                                     *)
(***************************************************************************)
Contiguous(stack) ==
    /\ \A i, j \in 1..Len(stack) : i # j => stack[i] # stack[j]
    /\ \A x \in Values(stack) : \A y \in Values(stack) :
           \A z \in (x + 1)..(y - 1) : z \in Values(stack)

C7_NonContiguousRejected ==
    ~Contiguous(input) =>
        /\ pc \notin {"loop", "expand", "print"}
        /\ visited = <<>>
        /\ curr_node = <<>>
        /\ Exited => Rejected

(***************************************************************************)
(* C8: for every input that fails validation (an element greater than the  *)
(* last one, or a non-contiguous value set) the process ends with a        *)
(* nonzero exit status; it ends with status 0 only when the search         *)
(* completed (solution found, already sorted, or no solution reported).    *)
(***************************************************************************)
FailsValidation(stack) ==
    \/ \E i \in 1..Len(stack) : stack[i] > stack[Len(stack)]
    \/ ~Contiguous(stack)

C8_ExitStatus ==
    Exited =>
        /\ FailsValidation(input) => exit_status # <<0>>
        /\ exit_status = <<0>> =>
               output \in {"steps", "already sorted", "No solution found"}

(***************************************************************************)
(* C9: in every reachable state of a run, also after successful replace    *)
(* operations, the node get returns has the smallest (total_cost,          *)
(* order_added) key of the frontier: no frontier node has a smaller        *)
(* total_cost, and among equal costs the earliest created is returned.     *)
(***************************************************************************)
KeyBefore(a, b) ==
    \/ a.cost < b.cost
    \/ a.cost = b.cost /\ a.order < b.order

C9_GetReturnsMinimum ==
    pc = "loop" /\ heap # <<>> =>
        \A i \in 1..Len(heap) : ~KeyBefore(heap[i], get(heap)[1])

(***************************************************************************)
(* C10: replace(node) changes the frontier only when an entry with the     *)
(* same state exists and node's total_cost is strictly less than that      *)
(* entry's; then exactly that entry is substituted by node and the size    *)
(* is unchanged.  In every other case (no entry with that state, or equal  *)
(* or greater cost) the frontier is left as it was.  Stated of replace on  *)
(* every frontier and child the driver meets, and of the step the driver   *)
(* takes when it calls replace.                                            *)
(***************************************************************************)
NextChild == Entry(variant, Child(variant, curr_node[1], flip_depth,
                                  order_added), order_added)

Improved(h, new) ==
    {i \in 1..Len(h) : h[i].node.state = new.node.state /\ new.cost < h[i].cost}

ReplaceFrame(h, new, after) ==
    IF Improved(h, new) = {}
    THEN after = h
    ELSE /\ Len(after) = Len(h)
         /\ \E i \in Improved(h, new) :
                /\ after[i] = new
                /\ \A j \in 1..Len(h) : j # i => after[j] = h[j]

C10_ReplaceFrame ==
    [][pc = "expand" =>
          /\ ReplaceFrame(heap, NextChild, replace(heap, NextChild))
          /\ last_op' = "replace" => ReplaceFrame(heap, NextChild, heap')]_vars

C10_Witness ==
    /\ last_op = "replace"
    /\ \E i \in 1..Len(heap) :
           /\ heap[i].order = order_added - 1
           /\ heap[i].node.parent = curr_node

(***************************************************************************)
(* C11: for every state of length n and every flip_depth d in [2, n-1],    *)
(* flip produces a state whose first d elements are the original first d   *)
(* elements in reverse order and whose other elements are those of the     *)
(* original, for even and for odd d.  Stated of every flip of the input    *)
(* and of every flip the driver makes of a popped node.                    *)
(***************************************************************************)
PrefixReversed(before, after, d) ==
    /\ Len(after) = Len(before)
    /\ \A i \in 1..d : after[i] = before[d + 1 - i]
    /\ \A i \in (d + 1)..Len(before) : after[i] = before[i]

C11_FlipReversesPrefix ==
    /\ \A d \in Depths(input) : PrefixReversed(input, FlipState(input, d), d)
    /\ pc = "expand" =>
           PrefixReversed(curr_node[1].state,
                          flip(curr_node[1], flip_depth).state, flip_depth)
    /\ \A i \in 1..Len(heap) :
           heap[i].node.parent # <<>> =>
               PrefixReversed(heap[i].node.parent[1].state,
                              heap[i].node.state, heap[i].node.flip_depth)

C11_Witness ==
    /\ \E i \in 1..Len(heap) :
           /\ heap[i].node.flip_depth = 4
           /\ heap[i].node.state # heap[i].node.parent[1].state
           /\ PrefixReversed(heap[i].node.parent[1].state,
                             heap[i].node.state, 4)
    /\ \E i \in 1..Len(heap) :
           /\ heap[i].node.flip_depth = 5
           /\ heap[i].node.state # heap[i].node.parent[1].state
           /\ PrefixReversed(heap[i].node.parent[1].state,
                             heap[i].node.state, 5)

(***************************************************************************)
(* C12: for every state s and every flip depth d in [2, n-1], applying     *)
(* flip with depth d twice yields the original state.  Stated of every     *)
(* input stack and of every node the driver flips.                         *)
(***************************************************************************)
C12_FlipInvolution ==
    /\ \A d \in Depths(input) : FlipState(FlipState(input, d), d) = input
    /\ pc = "expand" =>
           flip(flip(curr_node[1], flip_depth), flip_depth).state
               = curr_node[1].state

C12_Witness ==
    /\ pc = "expand" /\ flip_depth >= 3 /\ last_op = "put"
    /\ \E i \in 1..Len(heap) :
           /\ heap[i].node.parent = curr_node
           /\ heap[i].node.flip_depth = flip_depth - 1
           /\ heap[i].node.state # curr_node[1].state
           /\ FlipState(heap[i].node.state, flip_depth - 1)
                  = curr_node[1].state

(***************************************************************************)
(* C13: for every state (distinct consecutive integers, the maximum last)  *)
(* the gap count of heuristic / goal_test is 0 if and only if the state is *)
(* strictly increasing from first to last element.  Stated of the input,   *)
(* of every state as it is appended to visited and of every child of the   *)
(* node being expanded as it sits on the frontier.                         *)
(***************************************************************************)
GapZeroIffSorted(state) ==
    ValidStack(state) => (heuristic(state) = 0 <=> StrictlyIncreasing(state))

C13_GapZeroIffSorted ==
    /\ GapZeroIffSorted(input)
    /\ \A i \in 1..Len(heap) :
           heap[i].node.parent = curr_node =>
               GapZeroIffSorted(heap[i].node.state)
    /\ visited # <<>> => GapZeroIffSorted(visited[Len(visited)])

C13_Witness ==
    /\ ValidStack(input) /\ Solved /\ Len(visited) >= 3
    /\ heuristic(visited[Len(visited)]) = 0
    /\ StrictlyIncreasing(visited[Len(visited)])
    /\ heuristic(visited[1]) > 0 /\ ~StrictlyIncreasing(visited[1])
    /\ \E i \in 1..Len(heap) :
           /\ ValidStack(heap[i].node.state)
           /\ heuristic(heap[i].node.state) = 1

(***************************************************************************)
(* C14: for every valid input that is already sorted, the run ends SOLVED  *)
(* at the first pop with the root itself as the result (a parent chain of  *)
(* length 1, no node expanded, the frontier empty), and the outcome is     *)
(* rendered as "already sorted" with zero steps.                           *)
(***************************************************************************)
SortedInput == ValidStack(input) /\ StrictlyIncreasing(input)

C14_AlreadySorted ==
    SortedInput =>
        /\ pc # "expand"
        /\ Len(visited) <= 1
        /\ order_added <= FirstOrder(variant) + 1
        /\ pc \in {"print", "exited"} =>
               /\ visited = <<input>>
               /\ heap = <<>>
               /\ solution # <<>>
               /\ solution[1].state = input
               /\ solution[1].parent = <<>>
               /\ solution[1].backward_cost = 0
               /\ Len(Chain(solution)) = 1
        /\ Exited => output = "already sorted" /\ steps = <<>>

C14_Witness ==
    /\ SortedInput /\ Len(input) >= 4
    /\ UcsFinished
    /\ output = "already sorted" /\ astar_outcome.output = "already sorted"
    /\ Len(Chain(solution)) = 1 /\ Len(Chain(astar_outcome.solution)) = 1
    /\ visited = <<input>> /\ heap = <<>>

(***************************************************************************)
(* C15: in both variants, whenever a node is popped and its state is       *)
(* appended to visited, the node's backward_cost is the minimum, over all  *)
(* flip sequences (depths in [2, n-1]) leading from the input to that      *)
(* state, of the sum of flip depths.                                       *)
(***************************************************************************)
RECURSIVE CostLayersTo(_, _, _)
CostLayersTo(layers, n, target) ==
    IF target \in layers[Len(layers)]
    THEN Len(layers) - 1
    ELSE LET c == Len(layers)
             next == UNION {{Reversal(s, d) : s \in layers[c + 1 - d]} :
                            d \in {e \in 2..(n - 1) : e <= c}}
         IN  CostLayersTo(Append(layers, next), n, target)

MinDepthSumTo(stack, target) == CostLayersTo(<<{stack}>>, Len(stack), target)

JustPopped ==
    /\ last_op = "get"
    /\ curr_node # <<>>

(* C15: the backward_cost of a node just popped is the minimum sum of flip  *)
(* depths over the flip sequences from the input to its state.             *)
C15_PoppedCostMinimal ==
    ValidStack(input) /\ JustPopped =>
        curr_node[1].backward_cost
            = MinDepthSumTo(input, curr_node[1].state)

(***************************************************************************)
(* C16: in every reachable state the frontier holds at most one node per   *)
(* stack state: no two distinct frontier entries have equal states, after  *)
(* any sequence of put, get and replace performed by the driver.           *)
(***************************************************************************)
(* as many different states as entries *)
OneNodePerState(h) ==
    Cardinality({h[i].node.state : i \in 1..Len(h)}) = Len(h)

(* C16: no two distinct frontier entries have element-wise equal states.   *)
C16_OneNodePerState == OneNodePerState(heap)

C16_Witness ==
    /\ last_op = "replace"
    /\ Len(heap) >= 4
    /\ Len(visited) >= 3
    /\ \E i \in 1..Len(heap) :
           /\ heap[i].order = order_added - 1
           /\ heap[i].node.parent = curr_node
           /\ heap[i].node.flip_depth = flip_depth - 1
           /\ \A j \in 1..Len(heap) :
                  heap[j].node.state = heap[i].node.state => j = i

(***************************************************************************)
(* C17: a state that has been popped is never inserted into the frontier   *)
(* again: in every reachable state no frontier node's state is in visited, *)
(* and no state appears in visited more than once.                         *)
(***************************************************************************)
FrontierStates == {heap[i].node.state : i \in 1..Len(heap)}

VisitedStates == {visited[i] : i \in 1..Len(visited)}

(* C17: the frontier holds no visited state and visited has no duplicate.  *)
C17_NeverRevisited ==
    /\ FrontierStates \cap VisitedStates = {}
    /\ Cardinality(VisitedStates) = Len(visited)

C17_Witness ==
    /\ last_op = "discard"
    /\ pc = "expand"
    /\ Len(visited) >= 3
    /\ heap # <<>>
    /\ FlipState(curr_node[1].state, flip_depth - 1) \in VisitedStates
    /\ FlipState(curr_node[1].state, flip_depth - 1) \notin FrontierStates
    /\ Cardinality(VisitedStates) = Len(visited)

(***************************************************************************)
(* C18: in every reachable state the root node has no parent and           *)
(* backward_cost 0, and every non-root node in the frontier or on a parent *)
(* chain has backward_cost(node) = backward_cost(parent) + flip_depth(node),*)
(* the nodes that entered the frontier through replace included.  Every    *)
(* parent of a frontier node was curr_node when the node was made, so the  *)
(* chains are those of curr_node, of the solution and of the frontier      *)
(* nodes above them.                                                       *)
(***************************************************************************)
CostLinked(node) ==
    IF node.parent = <<>>
    THEN node.backward_cost = 0 /\ node.state = input
    ELSE node.backward_cost = node.parent[1].backward_cost + node.flip_depth

ChainCostLinked(opt) == \A i \in 1..Len(Chain(opt)) : CostLinked(Chain(opt)[i])

(* C18: the root has no parent and cost 0; every other node costs its      *)
(* parent's backward_cost plus its own flip_depth.                         *)
C18_BackwardCostLinked ==
    /\ \A i \in 1..Len(heap) : CostLinked(heap[i].node)
    /\ ChainCostLinked(curr_node)
    /\ ChainCostLinked(solution)
    /\ heap # <<>> => ChainCostLinked(<<heap[1].node>>)

C18_Witness ==
    /\ last_op = "replace"
    /\ \E i \in 1..Len(heap) :
           /\ heap[i].order = order_added - 1
           /\ heap[i].node.parent = curr_node
           /\ heap[i].node.flip_depth = flip_depth - 1
           /\ Len(Chain(<<heap[i].node>>)) >= 4
           /\ heap[i].node.backward_cost
                  = curr_node[1].backward_cost + flip_depth - 1
           /\ heap[i].node.backward_cost = SumDepths(Chain(<<heap[i].node>>))
           /\ Chain(<<heap[i].node>>)[4].parent = <<>>
           /\ Chain(<<heap[i].node>>)[4].backward_cost = 0

(***************************************************************************)
(* C19: for a valid input, every state held by a node in the frontier and  *)
(* every state in visited is a permutation of the input whose last element *)
(* is the input's last element (the plate, the maximum): the plate never   *)
(* moves, because the driver only applies flip depths in [2, n-1].         *)
(***************************************************************************)
PlatePermutation(state) ==
    /\ Len(state) = Len(input)
    /\ Values(state) = Values(input)
    /\ state[Len(state)] = input[Len(input)]
    /\ \A i \in 1..Len(state) : state[i] <= state[Len(state)]

(* C19: frontier and visited states are permutations of the valid input    *)
(* with the plate last.                                                    *)
C19_PlateStays ==
    ValidStack(input) =>
        \A state \in FrontierStates \cup VisitedStates : PlatePermutation(state)

C19_Witness ==
    /\ ValidStack(input)
    /\ Len(input) >= 5
    /\ Len(visited) >= 3
    /\ Len(heap) >= 3
    /\ last_op = "put"
    /\ flip_depth = Len(input)
    /\ \E i \in 1..Len(heap) :
           /\ heap[i].node.flip_depth = Len(input) - 1
           /\ heap[i].node.parent = curr_node
           /\ heap[i].node.state # input
           /\ heap[i].node.state[1] = curr_node[1].state[Len(input) - 1]
           /\ PlatePermutation(heap[i].node.state)
    /\ PlatePermutation(visited[Len(visited)])

(***************************************************************************)
(* C20: the gap heuristic is admissible: for every valid state s, gap(s)   *)
(* is at most the minimum number of flips (depths in [2, n-1]) needed to   *)
(* reach the sorted state from s, and hence at most the minimum sum of     *)
(* flip depths.  The valid states are the valid inputs; the heuristic is   *)
(* read where the program computes it: in the key of the root put on the   *)
(* A-star frontier and on the states of the solution path, whose           *)
(* remaining flips are at least the minimum.                               *)
(***************************************************************************)
RootOnFrontier == heap # <<>> /\ visited = <<>>

Admissible(state) ==
    /\ heuristic(state) <= MinFlips(state)
    /\ MinFlips(state) <= MinDepthSum(state)

(* C20: the gap of a valid state is at most its minimum number of flips,   *)
(* which is at most its minimum sum of flip depths.                        *)
C20_GapAdmissible ==
    /\ ValidStack(input) /\ RootOnFrontier =>
           /\ Admissible(input)
           /\ variant = "astar" => heap[1].cost <= MinFlips(input)
    /\ ValidStack(input) /\ Solved =>
           \A i \in 1..Len(Chain(solution)) :
               /\ heuristic(Chain(solution)[i].state) <= i - 1
               /\ heuristic(Chain(solution)[i].state)
                      <= solution[1].backward_cost
                             - Chain(solution)[i].backward_cost

C20_Witness ==
    /\ ValidStack(input)
    /\ RootOnFrontier
    /\ variant = "astar"
    /\ Len(input) >= 5
    /\ heap[1].cost = heuristic(input)
    /\ 0 < heuristic(input)
    /\ heuristic(input) < MinFlips(input)
    /\ MinFlips(input) < MinDepthSum(input)

(***************************************************************************)
(* C21: expanding a popped node leaves that node unchanged: after each     *)
(* pass of the expansion loop the expanded node's state, backward_cost and *)
(* parent are what they were, the other frontier nodes and the visited     *)
(* states are unchanged, and the child made in the pass is the flip of the *)
(* parent's original state (the state appended to visited at the pop), not *)
(* of a sibling's result.                                                  *)
(***************************************************************************)
NodesOf(h) == {h[i].node : i \in 1..Len(h)}

PoppedState == visited[Len(visited)]

ChildOfPopped(node) ==
    /\ node.parent = curr_node
    /\ node.flip_depth = flip_depth
    /\ node.state = Reversal(PoppedState, flip_depth)
    /\ node.backward_cost = curr_node[1].backward_cost + flip_depth

ExpandFrame(before, after) ==
    LET made == NodesOf(after) \ NodesOf(before)
        gone == NodesOf(before) \ NodesOf(after)
    IN  /\ Cardinality(made) <= 1
        /\ Cardinality(gone) <= Cardinality(made)
        /\ \A c \in made : ChildOfPopped(c)
        /\ \A g \in gone : \A c \in made : g.state = c.state
        /\ Len(after) = Len(before) + Cardinality(made) - Cardinality(gone)

(* C21: a pass of the expansion loop changes neither the expanded node nor *)
(* visited nor any other frontier node, and its child is the flip of the   *)
(* popped state.                                                           *)
C21_ExpandLeavesNode ==
    [][pc = "expand" =>
          /\ curr_node' = curr_node
          /\ curr_node[1].state = PoppedState
          /\ visited' = visited
          /\ ExpandFrame(heap, heap')
          /\ ChildOfPopped(Child(variant, curr_node[1], flip_depth,
                                 order_added))]_vars

C21_Witness ==
    /\ pc = "loop"
    /\ last_op = "put"
    /\ Len(input) >= 5
    /\ Len(visited) >= 2
    /\ curr_node[1].state = PoppedState
    /\ curr_node[1].parent # <<>>
    /\ \A d \in 3..(Len(input) - 1) :
           \E i \in 1..Len(heap) :
               /\ heap[i].node.parent = curr_node
               /\ heap[i].node.flip_depth = d
               /\ heap[i].node.state = Reversal(PoppedState, d)
               /\ heap[i].node.state
                      # Reversal(Reversal(PoppedState, d - 1), d)

(***************************************************************************)
(* C22: after every completed expansion, every state one flip (depth in    *)
(* [2, n-1]) away from an expanded (visited, non-goal) state is in visited *)
(* or held by a frontier node; so the frontier can become empty only when  *)
(* every state reachable from the input has been visited.  An expansion is *)
(* completed when the loop over the flip depths has ended; the goal, the   *)
(* state popped last, is not expanded.                                     *)
(***************************************************************************)
ExpandedStates ==
    IF solution # <<>>
    THEN {visited[i] : i \in 1..(Len(visited) - 1)}
    ELSE VisitedStates

Neighbours(states) ==
    UNION {{Reversal(s, d) : d \in Depths(s)} : s \in states}

(* C22: the one-flip neighbours of the expanded states are visited or on   *)
(* the frontier, and a frontier found empty leaves visited closed under    *)
(* flips.                                                                  *)
C22_NeighboursKept ==
    /\ pc # "expand" =>
           Neighbours(ExpandedStates) \subseteq VisitedStates \cup FrontierStates
    /\ pc = "print" /\ solution = <<>> =>
           /\ input \in VisitedStates
           /\ Neighbours(VisitedStates) \subseteq VisitedStates

C22_Witness ==
    /\ pc = "loop"
    /\ Len(input) >= 5
    /\ Len(visited) >= 3
    /\ last_op = "discard"
    /\ Neighbours({PoppedState}) \cap VisitedStates # {}
    /\ Cardinality(Neighbours({PoppedState}) \cap FrontierStates) >= 2
    /\ Neighbours(VisitedStates) \subseteq VisitedStates \cup FrontierStates

C22_WitnessEmptied ==
    /\ pc = "print" /\ solution = <<>>
    /\ Len(visited) >= 2
    /\ Neighbours(VisitedStates) \subseteq VisitedStates

(***************************************************************************)
(* C23: within one run, the total_cost values of the successively popped   *)
(* nodes form a non-decreasing sequence (A-star: gap + backward_cost;      *)
(* uniform-cost: backward_cost), the pops that follow a replace of a       *)
(* frontier entry by a cheaper node included.  curr_node is the node of    *)
(* the pop before; the pop is the step taken from the head of the loop     *)
(* with a non-empty frontier.                                              *)
(***************************************************************************)
NextPop == pc = "loop" /\ heap # <<>> /\ curr_node # <<>>

(* C23: each pop returns a node whose total_cost is at least that of the   *)
(* node popped before it.                                                  *)
C23_PoppedCostsNonDecreasing ==
    [][NextPop =>
          total_cost(variant, curr_node'[1])
              >= total_cost(variant, curr_node[1])]_vars

=============================================================================
